---- MODULE Spec2Model ----
(***************************************************************************)
(* CourseTwin: the Mastery-Gated Progression Engine.                       *)
(*                                                                         *)
(*   - Progress Store & Sync Protocol  (server, reportProgress)            *)
(*   - Checkpoint Gate Evaluator       (server, courseProgress)            *)
(*   - Playback Seek Guard             (client, ControlledVideoPlayer.tsx) *)
(*   - Attention Sampler & Debouncer   (client, useAttentionTracker.ts and *)
(*                                      AttentionMonitor.tsx)              *)
(*   - Camera lifecycle                (client, useAttentionTracker.ts:    *)
(*                                      startTracking, stopTracking)       *)
(*   - Course page                     (client, page.tsx: video switch,    *)
(*                                      QuizModal.tsx)                     *)
(*                                                                         *)
(* Times are integers: seconds on the server and in the player,            *)
(* milliseconds in the attention tracker, as in the source.                *)
(***************************************************************************)
EXTENDS Integers, Sequences, FiniteSets, TLC

VARIABLES
    progress,     \* server: videoId -> WatchProgress row (or NoRow)
    lastCall,     \* server: the last reportProgress request and its result
    attempts,     \* server: the QuizAttempt rows (equal rows are not told apart)
    view,         \* server: the answer of the last courseProgress read, if
                  \*         nothing was written since (never cached)
    isMandatory,  \* player: the isMandatory prop
    videoTime,    \* player: videoRef.current.currentTime
    maxWatched,   \* player: useState maxWatched
    isPlaying,    \* player: useState isPlaying
    seekPending,  \* player: a "seeking" event waits for handleSeeking
    lastSeek,     \* player: what the last handleSeeking did
    net,          \* server -> player: progress responses in flight
    pushed,       \* history: the progress reports sent by the handler of the
                  \*          player that ran last
    elementPlaying,         \* <video>: not paused
    mediaEvents,            \* <video>: "play"/"pause" events not yet dispatched
    now,                    \* Date.now() at the last sampling tick
    ticks,                  \* sampling ticks so far
    isTracking,             \* tracker state: isTracking
    distractionEvents,      \* tracker state: distractionEvents
    shouldSuggestBreak,     \* tracker state: shouldSuggestBreak
    distractionStartRef,    \* tracker ref (NoTime for null)
    eventTimestampsRef,     \* tracker ref: the trend window
    eventTriggeredRef,      \* tracker ref: the "already fired" guard
    totalFocusedTime,       \* tracker state: 0, or 1 for any positive total
    totalDistractedTime,    \* tracker state: 0, or 1 for any positive total
    lastProcessedEventRef,  \* monitor ref
    isOnBreak,              \* monitor state: isOnBreak
    breakTimeLeft,          \* monitor state: ms left of the break
    showBreakEndAlert,      \* monitor state: the "break is over" prompt
    span,                   \* history: the non-detection span being sampled
    allEvents,              \* history: Date.now() of every event emitted
    clearedAt,              \* history: events emitted when the window was
                            \*          last emptied
    autoPauses,             \* history: pauses issued for a distraction event
    mounted,                \* the AttentionMonitor is mounted
    startPc,                \* startTracking call -> the await it is suspended at
    streamRef,              \* tracker ref: the call whose stream it holds (0: null)
    detectorRef,            \* tracker ref: the call whose detector it holds
    intervalRef,            \* tracker ref: the call whose timer it holds
    liveStreams,            \* camera: streams whose tracks were not stopped
    liveDetectors,          \* detectors not closed
    liveTimers,             \* setInterval timers not cleared
    stopped,                \* history: stopTracking ran and startTracking was
                            \*          not called since
    activeVideo,            \* page: the video the player shows (videoId prop)
    playerMounted,          \* the ControlledVideoPlayer is mounted
    pageProgress,           \* page: progress, the videos of the last
                            \*       courseProgress answer it fetched
    quizShown,              \* page: the checkpoint of the open QuizModal (0: no
                            \*       modal)
    quizResult,             \* QuizModal state: result
    quizTimer,              \* QuizModal: the checkpoint whose setTimeout of
                            \*            onComplete is pending (0: none)
    quizCompleted           \* history: the checkpoints onComplete was called for

serverVars == <<progress, lastCall, attempts, view>>

playerVars == <<isMandatory, videoTime, maxWatched, isPlaying,
                seekPending, lastSeek, net, pushed>>

trackerVars == <<now, ticks, isTracking, distractionEvents, shouldSuggestBreak,
                 distractionStartRef, eventTimestampsRef, eventTriggeredRef,
                 totalFocusedTime, totalDistractedTime,
                 span, allEvents, clearedAt>>

\* What the AttentionMonitor holds besides the tracker.
breakVars == <<isOnBreak, breakTimeLeft, showBreakEndAlert>>

monitorVars == <<lastProcessedEventRef, breakVars, autoPauses>>

\* The capture device and everything startTracking acquires.
cameraVars == <<mounted, startPc, streamRef, detectorRef, intervalRef,
                liveStreams, liveDetectors, liveTimers, stopped>>

attnVars == <<elementPlaying, mediaEvents, trackerVars, monitorVars,
              cameraVars>>

\* The page around the player.
quizVars == <<quizShown, quizResult, quizTimer, quizCompleted>>

syncVars == <<activeVideo, playerMounted, pageProgress, quizVars>>

vars == <<serverVars, playerVars, attnVars, syncVars>>

(***************************************************************************)
(* Bounds of the model                                                     *)
(***************************************************************************)
NumVideos == 7        \* videos of the course, order indices 1..NumVideos
PlayerDuration == 5   \* seconds of the video in the player
MaxInflight == 1      \* saveProgress responses in flight
MaxTicks == 11        \* runs of the detection loop
MaxLongGaps == 1      \* long delays of the detection loop
MaxMediaEvents == 2   \* undispatched events of the learner's own presses
MaxStarts == 2        \* startTracking calls whose resources exist at once
SyncVideos == 2       \* videos the learner switches between, 1..SyncVideos

(***************************************************************************)
(* Program constants                                                       *)
(***************************************************************************)
MAX_ADVANCE == 15          \* seconds the ratchet may advance per report
CHECKPOINT_INTERVAL == 3   \* a quiz after every 3rd video
PASS_PERCENT == 70         \* passed = score >= 70%
COMPLETE_NUM == 9          \* completed = max >= 9/10 of the duration
COMPLETE_DEN == 10
SEEK_BUFFER == 2           \* seconds a forward seek may pass maxWatched

Videos == 1..NumVideos

Min(a, b) == IF a < b THEN a ELSE b
Max(a, b) == IF a > b THEN a ELSE b

(***************************************************************************)
(* 4.1 Progress Store & Sync Protocol                                      *)
(***************************************************************************)
NoRow == [exists |-> FALSE, watchedSeconds |-> 0, totalSeconds |-> 0,
          maxWatchedSeconds |-> 0, completed |-> FALSE]

NoCall == [status |-> "none", videoId |-> 0, watchedSeconds |-> 0,
           totalSeconds |-> 0, lastMax |-> 0, wasCompleted |-> FALSE]

\* The stored ratchet, 0 if the row is absent.
LastMax(row) == IF row.exists THEN row.maxWatchedSeconds ELSE 0

\* Mutant: the reported position is trusted (no clamp).
RatchetAfter_NoClamp(lastMax, watched) == Max(lastMax, watched)

\* Mutant: a blind overwrite with a bounded step (the stored ratchet is not
\* compared).
RatchetAfter_Overwrite(lastMax, watched) ==
    Min(watched, lastMax + MAX_ADVANCE)

\* The anti-spoof rule: newMax = min(max(lastMax, watched), lastMax + MAX_ADVANCE).
RatchetAfter(lastMax, watched) ==
    Min(Max(lastMax, watched), lastMax + MAX_ADVANCE)

\* completed = maxWatchedSeconds >= 0.9 * totalSeconds
IsCompleted(maxSeconds, total) ==
    COMPLETE_DEN * maxSeconds >= COMPLETE_NUM * total

\* Mutant: completed is derived from the reported position, not the ratchet.
RowAfter_CompletedFromPosition(row, watched, total) ==
    LET newMax == RatchetAfter(LastMax(row), watched)
        dur    == IF row.exists THEN row.totalSeconds ELSE total
    IN  [exists |-> TRUE, watchedSeconds |-> watched, totalSeconds |-> dur,
         maxWatchedSeconds |-> newMax, completed |-> IsCompleted(watched, dur)]

\* The row after an accepted report: the position is stored as reported, the
\* duration is set on the first report, the ratchet follows the clamped rule.
RowAfter(row, watched, total) ==
    LET newMax == RatchetAfter(LastMax(row), watched)
        dur    == IF row.exists THEN row.totalSeconds ELSE total
    IN  [exists |-> TRUE, watchedSeconds |-> watched, totalSeconds |-> dur,
         maxWatchedSeconds |-> newMax, completed |-> IsCompleted(newMax, dur)]

\* The result of a request: unauthenticated or not enrolled is an
\* AuthorizationError, a malformed payload a ValidationError.
ReportStatus(watched, total, enrolled) ==
    IF ~enrolled THEN "AuthorizationError"
    ELSE IF watched < 0 \/ total <= 0 THEN "ValidationError"
    ELSE "ok"

\* POST videoProgress(videoId, watchedSeconds, totalSeconds) by a caller who is
\* or is not enrolled.
reportProgress(v, watched, total, enrolled) ==
    LET row    == progress[v]
        status == ReportStatus(watched, total, enrolled)
    IN  /\ progress' = IF status = "ok"
                       THEN [progress EXCEPT ![v] = RowAfter(row, watched, total)]
                       ELSE progress
        /\ view' = IF status = "ok" THEN <<>> ELSE view
        /\ UNCHANGED attempts

\* The request and its result, as the caller sees them.
CallRecord(v, watched, total, enrolled) ==
    [status |-> ReportStatus(watched, total, enrolled), videoId |-> v,
     watchedSeconds |-> watched, totalSeconds |-> total,
     lastMax |-> LastMax(progress[v]), wasCompleted |-> progress[v].completed]

(***************************************************************************)
(* 4.2 Checkpoint Gate Evaluator                                           *)
(***************************************************************************)
\* The checkpoints of the course: after every CHECKPOINT_INTERVAL-th video.
Checkpoints == {k \in Videos : k % CHECKPOINT_INTERVAL = 0}

\* passed = score >= 0.70
IsPassed(score) == score >= PASS_PERCENT

\* A passed QuizAttempt exists for the quiz with trigger_video_index = k.
PassedCheckpoint(k) ==
    \E a \in attempts : a.triggerVideoIndex = k /\ a.passed

\* Mutant: any attempt for the checkpoint unlocks, passed or not.
CanAccess_AnyAttempt(i) ==
    \A k \in Checkpoints :
        k < i => \E a \in attempts : a.triggerVideoIndex = k

\* The walk over the videos in order: the first video is accessible, and each
\* next one is if the one before is and the boundary between them, if it is
\* one, has a passed attempt.
RECURSIVE CanAccess(_)
CanAccess(i) ==
    IF i = 1 THEN TRUE
    ELSE /\ CanAccess(i - 1)
         /\ ((i - 1) \in Checkpoints => PassedCheckpoint(i - 1))

\* Mutant: a video that was merely started counts as done.
RECURSIVE QuizRequiredFrom_Started(_)
QuizRequiredFrom_Started(i) ==
    IF i > NumVideos THEN 0
    ELSE IF ~progress[i].exists THEN 0
    ELSE IF i \in Checkpoints /\ ~PassedCheckpoint(i) THEN i
    ELSE QuizRequiredFrom_Started(i + 1)

\* The walk that finds the quiz that is needed: go on while the videos are
\* completed; the first checkpoint met without a passed attempt is the one.
\* 0: none.
RECURSIVE QuizRequiredFrom(_)
QuizRequiredFrom(i) ==
    IF i > NumVideos THEN 0
    ELSE IF ~progress[i].completed THEN 0
    ELSE IF i \in Checkpoints /\ ~PassedCheckpoint(i) THEN i
    ELSE QuizRequiredFrom(i + 1)

QuizRequiredAt == QuizRequiredFrom(1)

\* GET courseProgress(courseId): recomputed from the rows on every read.
CourseProgress ==
    [videos |-> [i \in Videos |->
                    [videoId |-> i, orderIndex |-> i,
                     maxWatchedSeconds |-> LastMax(progress[i]),
                     completed |-> progress[i].completed,
                     canAccess |-> CanAccess(i),
                     quizRequiredAt |->
                         IF CanAccess(i) THEN 0 ELSE QuizRequiredAt]],
     quizRequired |-> QuizRequiredAt # 0,
     quizCheckpoint |-> QuizRequiredAt]

getCourseProgress ==
    /\ view' = <<CourseProgress>>
    /\ UNCHANGED <<progress, lastCall, attempts>>
    /\ UNCHANGED <<playerVars, attnVars, syncVars>>

\* POST quizSubmit on the server: one immutable row per submission.
storeAttempt(k, score) ==
    /\ attempts' = attempts \cup {[triggerVideoIndex |-> k, score |-> score,
                                    passed |-> IsPassed(score)]}
    /\ view' = <<>>
    /\ UNCHANGED <<progress, lastCall>>

\* POST quizSubmit by any client.
quizSubmit(k, score) ==
    /\ storeAttempt(k, score)
    /\ UNCHANGED <<playerVars, attnVars, syncVars>>

(***************************************************************************)
(* 4.3 Playback Seek Guard (ControlledVideoPlayer.tsx), on video 1         *)
(***************************************************************************)
Positions == 0..PlayerDuration

\* video.duration: every video lasts PlayerDuration, but for one long video,
\* the last before the first checkpoint, on which the server's clamp of one
\* report is shorter than the video.
LongVideo == CHECKPOINT_INTERVAL
LongDuration == 3 * MAX_ADVANCE

DurationOf(v) == IF v = LongVideo THEN LongDuration ELSE PlayerDuration

\* A response of /videos/v/progress on its way to the player, holding the
\* fields the player reads from res.data. A request reaches the server when it
\* is sent, or fails; its response travels, and may fail too.
FetchResponse(v, row) == [kind |-> "fetch", video |-> v,
                          watched |-> row.watchedSeconds, max |-> LastMax(row)]
SaveResponse(v, row) == [kind |-> "save", video |-> v, watched |-> 0,
                         max |-> row.maxWatchedSeconds]

\* The saveProgress responses in flight.
Saves == {m \in net : m.kind = "save"}

\* The fetchProgress responses in flight.
Fetches == {m \in net : m.kind = "fetch"}

\* Mutant: the buffer is allowed on the way back too (snaps to allowedMax).
SeekResult_SnapToAllowed(target) ==
    IF isMandatory /\ target > maxWatched + SEEK_BUFFER
    THEN maxWatched + SEEK_BUFFER
    ELSE target

\* handleSeeking: the position the handler leaves the video at.
SeekResult(target) ==
    IF ~isMandatory THEN target
    ELSE LET allowedMax == maxWatched + SEEK_BUFFER
         IN  IF target > allowedMax THEN maxWatched ELSE target

\* The user drags the seek bar: the browser sets currentTime and queues the
\* "seeking" event.
userSeek(target) ==
    /\ ~seekPending
    /\ videoTime' = target
    /\ seekPending' = TRUE
    /\ UNCHANGED <<isMandatory, maxWatched, isPlaying, lastSeek,
                   net>>
    /\ pushed' = <<>>
    /\ UNCHANGED serverVars
    /\ UNCHANGED attnVars

\* handleSeeking. Writing video.currentTime is a seek of its own, so the
\* clamp queues one more "seeking" event.
handleSeeking ==
    /\ seekPending
    /\ videoTime' = SeekResult(videoTime)
    /\ seekPending' = (videoTime' # videoTime)
    /\ lastSeek' = IF videoTime' = videoTime THEN "kept" ELSE "clamped"
    /\ UNCHANGED <<isMandatory, maxWatched, isPlaying, net>>
    /\ pushed' = <<>>
    /\ UNCHANGED serverVars
    /\ UNCHANGED attnVars

\* handleTimeUpdate, after the playhead advanced by `advance` seconds.
handleTimeUpdate(advance) ==
    /\ ~seekPending
    /\ advance > 0 =>
           isPlaying /\ videoTime + advance <= DurationOf(activeVideo)
    /\ videoTime' = videoTime + advance
    /\ maxWatched' = IF videoTime' > maxWatched THEN videoTime' ELSE maxWatched
    /\ lastSeek' = "none"
    /\ UNCHANGED <<isMandatory, isPlaying, seekPending, net>>
    /\ pushed' = <<>>
    /\ UNCHANGED serverVars
    /\ UNCHANGED attnVars

\* One progress report as it was sent: by the interval, by the effect's
\* other branch, or by handleEnded; `sent` is false if the request failed.
Push(by, v, watched, total, delivered) ==
    [by |-> by, video |-> v, watched |-> watched, total |-> total,
     sent |-> delivered]

\* api.post(/videos/v/progress, {watched_seconds, total_seconds}): the server
\* stores the report and its response sets out, kept for the caller if
\* `awaited`; or the request fails, or the server rejects it, and the catch
\* logs it.
postTo(v, watched, total, delivered, awaited) ==
    IF delivered /\ ReportStatus(watched, total, TRUE) = "ok"
    THEN /\ reportProgress(v, watched, total, TRUE)
         /\ net' = IF awaited THEN net \cup {SaveResponse(v, progress'[v])}
                   ELSE net
         /\ UNCHANGED lastCall
    ELSE UNCHANGED <<progress, lastCall, attempts, view, net>>

\* A post for the video the player shows, its metadata loaded.
postProgress(watched, delivered, awaited) ==
    postTo(activeVideo, watched, DurationOf(activeVideo), delivered, awaited)

\* saveProgress, called by the interval or by the effect: posts the current
\* position; the response sets maxWatched.
saveProgress(by, delivered) ==
    /\ Cardinality(Saves) < MaxInflight
    /\ postProgress(videoTime, delivered, TRUE)
    /\ pushed' = <<Push(by, activeVideo, videoTime, DurationOf(activeVideo),
                        delivered)>>

\* handlePlay; the effect starts the 5 s interval.
handlePlay ==
    /\ ~seekPending
    /\ ~isPlaying
    /\ videoTime < DurationOf(activeVideo)
    /\ isPlaying' = TRUE
    /\ UNCHANGED <<isMandatory, videoTime, maxWatched, seekPending, lastSeek, net>>
    /\ pushed' = <<>>
    /\ UNCHANGED serverVars

\* handlePause; the effect clears the interval and saves once.
handlePause(delivered) ==
    /\ ~seekPending
    /\ isPlaying
    /\ videoTime < DurationOf(activeVideo)
    /\ isPlaying' = FALSE
    /\ saveProgress("effect", delivered)
    /\ UNCHANGED <<isMandatory, videoTime, maxWatched, seekPending, lastSeek>>

\* Mutant: the interval is never cleared.
saveTick_NeverCleared(delivered) ==
    /\ ~seekPending
    /\ saveProgress("interval", delivered)
    /\ UNCHANGED <<isMandatory, videoTime, maxWatched, isPlaying,
                   seekPending, lastSeek>>
    /\ UNCHANGED attnVars

\* The interval of the effect fires while playing.
saveTick(delivered) ==
    /\ ~seekPending
    /\ isPlaying
    /\ saveProgress("interval", delivered)
    /\ UNCHANGED <<isMandatory, videoTime, maxWatched, isPlaying,
                   seekPending, lastSeek>>
    /\ UNCHANGED attnVars

\* The end of the video: isPlaying turns false, so the effect saves the
\* position, which is the duration, and handleEnded posts the duration once
\* more. The server stores one report after the other; the response kept is
\* the effect's, handleEnded does not read its own.
handleEnded(delivered) ==
    LET total == DurationOf(activeVideo)
        first == RowAfter(progress[activeVideo], videoTime, total)
        second == RowAfter(first, total, total)
    IN  /\ ~seekPending
        /\ isPlaying
        /\ videoTime = total
        /\ Cardinality(Saves) < MaxInflight
        /\ isPlaying' = FALSE
        /\ IF delivered /\ ReportStatus(total, total, TRUE) = "ok"
           THEN /\ progress' = [progress EXCEPT ![activeVideo] = second]
                /\ view' = <<>>
                /\ net' = net \cup {SaveResponse(activeVideo, first)}
                /\ UNCHANGED <<lastCall, attempts>>
           ELSE UNCHANGED <<progress, lastCall, attempts, view, net>>
        /\ pushed' = <<Push("effect", activeVideo, videoTime, total, delivered),
                       Push("ended", activeVideo, total, total, delivered)>>
    /\ UNCHANGED <<isMandatory, videoTime, maxWatched, seekPending, lastSeek>>
    /\ elementPlaying' = FALSE
    /\ UNCHANGED <<mediaEvents, trackerVars, monitorVars>>
    /\ UNCHANGED cameraVars

\* A response reaches the player: fetchProgress restores the position (a
\* seek of the element), saveProgress overwrites maxWatched.
responseArrives(m) ==
    /\ ~seekPending
    /\ m \in net
    /\ net' = net \ {m}
    /\ IF m.kind = "fetch"
       THEN IF m.max > 0
            THEN /\ maxWatched' = m.max
                 /\ videoTime' = m.watched
                 /\ seekPending' = TRUE
            ELSE UNCHANGED <<maxWatched, videoTime, seekPending>>
       ELSE /\ maxWatched' = m.max
            /\ UNCHANGED <<videoTime, seekPending>>
    /\ UNCHANGED <<isMandatory, isPlaying, lastSeek>>
    /\ pushed' = <<>>
    /\ UNCHANGED serverVars
    /\ UNCHANGED attnVars

\* Mutant: the catch gives up the optimistic value.
responseFails_DropsRatchet(m) ==
    /\ m \in net
    /\ net' = net \ {m}
    /\ maxWatched' = 0
    /\ UNCHANGED <<isMandatory, videoTime, isPlaying, seekPending, lastSeek>>
    /\ pushed' = <<>>
    /\ UNCHANGED serverVars
    /\ UNCHANGED attnVars

\* A response is lost (network error, timeout): the catch logs.
responseFails(m) ==
    /\ m \in net
    /\ net' = net \ {m}
    /\ UNCHANGED <<isMandatory, videoTime, maxWatched, isPlaying,
                   seekPending, lastSeek>>
    /\ pushed' = <<>>
    /\ UNCHANGED serverVars
    /\ UNCHANGED attnVars

(***************************************************************************)
(* 4.4 Attention Sampler & Debouncer (useAttentionTracker.ts) and its      *)
(* consumer (AttentionMonitor.tsx)                                         *)
(***************************************************************************)
DISTRACTION_THRESHOLD_MS == 10000
DETECTION_INTERVAL_MS == 500
TREND_WINDOW_MS == 3600000
BREAK_SUGGESTION_THRESHOLD == 3
AUTO_PAUSE_BELOW == 3       \* distractionEvents < 3 pauses the video
BREAK_DURATION_MS == 300000
BREAK_TICK_MS == 1000       \* the period of the break timer

\* totalFocusedTime and totalDistractedTime only grow from 0 and are set back
\* to 0; no handler reads their amount. The model keeps of each total
\* whether it is 0 or positive.
Sign(x) == IF x > 0 THEN 1 ELSE 0

NoTime == -1                \* null in distractionStartRef
NoSpan == [start |-> NoTime, last |-> NoTime, events |-> 0]

\* Mutant: the window is never pruned.
TrendWindow_NoPrune(stamps, t) == stamps

\* eventTimestampsRef.current.filter(t => now - t < TREND_WINDOW_MS)
TrendWindow(stamps, t) ==
    SelectSeq(stamps, LAMBDA e : t - e < TREND_WINDOW_MS)

\* Mutant: the pause for events 1 and 2 is issued on every run of the effect.
PauseForEvent_EveryRun(events, lastProcessed) ==
    events > 0 /\ events < AUTO_PAUSE_BELOW

\* The effect's first branch: an event not processed yet, the 1st or the 2nd.
PauseForEvent(events, lastProcessed) ==
    events > lastProcessed /\ events > 0 /\ events < AUTO_PAUSE_BELOW

\* Mutant: the break suggestion pauses nothing.
PauseForBreak_Never(suggested) == FALSE

\* The effect's second branch: if (shouldSuggestBreak) onPauseVideo().
PauseForBreak(suggested) == suggested

\* videoRef.current.pause() on element state `el` with `queue` undispatched:
\* a playing element pauses and queues its "pause" event.
PausedElement(el, queue) ==
    [playing |-> FALSE,
     events |-> IF el THEN Append(queue, "pause") ELSE queue]

\* videoRef.current.play(): a paused element plays and queues "play".
PlayingElement(el, queue) ==
    [playing |-> TRUE,
     events |-> IF el THEN queue ELSE Append(queue, "play")]

\* The distraction effect of the monitor, run (or not: `runs`) after a render
\* that shows `events` and `suggested`, on element state `el` with `queue`.
distractionEffect(runs, events, suggested, el, queue) ==
    LET forEvent == runs /\ PauseForEvent(events, lastProcessedEventRef)
        forBreak == runs /\ PauseForBreak(suggested)
        after == IF forEvent \/ forBreak
                 THEN PausedElement(el, queue)
                 ELSE [playing |-> el, events |-> queue]
    IN  /\ lastProcessedEventRef' =
              IF runs /\ events > lastProcessedEventRef
              THEN events ELSE lastProcessedEventRef
        /\ autoPauses' = autoPauses + (IF forEvent THEN 1 ELSE 0)
        /\ elementPlaying' = after.playing
        /\ mediaEvents' = after.events

\* A null ref.
NoRef == 0

\* The startTracking calls told apart; a stream, a detector and a timer carry
\* the number of the call that acquired them.
StartCalls == 1..MaxStarts

\* Numbers no running call and no live resource carries.
FreeCalls ==
    {c \in StartCalls :
        /\ startPc[c] = "idle"
        /\ c \notin (liveStreams \cup liveDetectors \cup liveTimers)}

NextCall == CHOOSE c \in FreeCalls : \A d \in FreeCalls : c <= d

\* The refs and the resources as one value.
Camera ==
    [streamRef |-> streamRef, detectorRef |-> detectorRef,
     intervalRef |-> intervalRef, liveStreams |-> liveStreams,
     liveDetectors |-> liveDetectors, liveTimers |-> liveTimers]

\* stopTracking on the refs: each non-null ref is released and nulled.
AfterStop(cam) ==
    [streamRef |-> NoRef, detectorRef |-> NoRef, intervalRef |-> NoRef,
     liveStreams |-> cam.liveStreams \ {cam.streamRef},
     liveDetectors |-> cam.liveDetectors \ {cam.detectorRef},
     liveTimers |-> cam.liveTimers \ {cam.intervalRef}]

\* The body of stopTracking.
stopTrackingBody ==
    LET after == AfterStop(Camera)
    IN  /\ intervalRef' = after.intervalRef
        /\ liveTimers' = after.liveTimers
        /\ detectorRef' = after.detectorRef
        /\ liveDetectors' = after.liveDetectors
        /\ streamRef' = after.streamRef
        /\ liveStreams' = after.liveStreams
        /\ distractionStartRef' = NoTime
        /\ span' = NoSpan
        /\ isTracking' = FALSE
        /\ stopped' = TRUE

\* What a startTracking step leaves alone.
startTrackingFrame ==
    /\ UNCHANGED <<now, ticks, distractionEvents, shouldSuggestBreak,
                   distractionStartRef, eventTimestampsRef, eventTriggeredRef,
                   totalFocusedTime, totalDistractedTime,
                   span, allEvents, clearedAt>>
    /\ UNCHANGED <<elementPlaying, mediaEvents, monitorVars>>
    /\ UNCHANGED <<serverVars, playerVars, syncVars>>
    /\ UNCHANGED mounted

\* handleEnableFocusMode: startTracking is called and suspends at
\* getUserMedia.  The toggle offers it whenever isTracking is false.
requestCamera(c) ==
    /\ mounted
    /\ ~isTracking
    /\ FreeCalls # {}
    /\ c = NextCall
    /\ startPc' = [startPc EXCEPT ![c] = "camera"]
    /\ UNCHANGED <<isTracking, streamRef, detectorRef, intervalRef,
                   liveStreams, liveDetectors, liveTimers>>
    /\ stopped' = FALSE
    /\ startTrackingFrame

\* getUserMedia resolves: the stream goes into streamRef and into a new video
\* element, and the call suspends until that element has its metadata.
cameraGranted(c) ==
    /\ startPc[c] = "camera"
    /\ startPc' = [startPc EXCEPT ![c] = "metadata"]
    /\ liveStreams' = liveStreams \cup {c}
    /\ streamRef' = c
    /\ UNCHANGED <<isTracking, detectorRef, intervalRef, liveDetectors,
                   liveTimers>>
    /\ UNCHANGED stopped
    /\ startTrackingFrame

\* getUserMedia rejects: the catch logs and alerts.
cameraDenied(c) ==
    /\ startPc[c] = "camera"
    /\ startPc' = [startPc EXCEPT ![c] = "idle"]
    /\ UNCHANGED <<isTracking, streamRef, detectorRef, intervalRef,
                   liveStreams, liveDetectors, liveTimers>>
    /\ UNCHANGED stopped
    /\ startTrackingFrame

\* onloadedmetadata of the call's video element, which a stopTracking that
\* stopped its stream has detached from it; initializeDetector starts.
metadataLoaded(c) ==
    /\ startPc[c] = "metadata"
    /\ c \in liveStreams
    /\ startPc' = [startPc EXCEPT ![c] = "detector"]
    /\ UNCHANGED <<isTracking, streamRef, detectorRef, intervalRef,
                   liveStreams, liveDetectors, liveTimers>>
    /\ UNCHANGED stopped
    /\ startTrackingFrame

\* initializeDetector returns true: detectorRef is set, isTracking is set and
\* the detection loop is started.
detectorReady(c) ==
    /\ startPc[c] = "detector"
    /\ startPc' = [startPc EXCEPT ![c] = "idle"]
    /\ detectorRef' = c
    /\ liveDetectors' = liveDetectors \cup {c}
    /\ isTracking' = (mounted \/ isTracking)
    /\ intervalRef' = c
    /\ liveTimers' = liveTimers \cup {c}
    /\ UNCHANGED <<streamRef, liveStreams>>
    /\ UNCHANGED stopped
    /\ startTrackingFrame

\* initializeDetector returns false: startTracking throws, the catch logs and
\* alerts.
detectorFailed(c) ==
    /\ startPc[c] = "detector"
    /\ startPc' = [startPc EXCEPT ![c] = "idle"]
    /\ UNCHANGED <<isTracking, streamRef, detectorRef, intervalRef,
                   liveStreams, liveDetectors, liveTimers>>
    /\ UNCHANGED stopped
    /\ startTrackingFrame

\* startTracking with nothing else running between its awaits, the camera
\* granted and the detector ready.
startTracking ==
    /\ mounted
    /\ ~isTracking
    /\ FreeCalls # {}
    /\ isTracking' = TRUE
    /\ streamRef' = NextCall
    /\ liveStreams' = liveStreams \cup {NextCall}
    /\ detectorRef' = NextCall
    /\ liveDetectors' = liveDetectors \cup {NextCall}
    /\ intervalRef' = NextCall
    /\ liveTimers' = liveTimers \cup {NextCall}
    /\ UNCHANGED startPc
    /\ stopped' = FALSE
    /\ startTrackingFrame

\* stopTracking ("Focus Mode ON" button).
stopTracking ==
    /\ mounted
    /\ isTracking
    /\ stopTrackingBody
    /\ UNCHANGED <<now, ticks, distractionEvents, shouldSuggestBreak,
                   eventTimestampsRef, eventTriggeredRef,
                   totalFocusedTime, totalDistractedTime, allEvents, clearedAt>>
    /\ UNCHANGED <<elementPlaying, mediaEvents, monitorVars>>
    /\ UNCHANGED <<serverVars, playerVars, syncVars>>
    /\ UNCHANGED <<mounted, startPc>>

\* The cleanup of the tracker's unmount effect: stopTracking.
unmount ==
    /\ mounted
    /\ mounted' = FALSE
    /\ stopTrackingBody
    /\ UNCHANGED <<now, ticks, distractionEvents, shouldSuggestBreak,
                   eventTimestampsRef, eventTriggeredRef,
                   totalFocusedTime, totalDistractedTime, allEvents, clearedAt>>
    /\ UNCHANGED <<elementPlaying, mediaEvents, monitorVars>>
    /\ UNCHANGED <<serverVars, playerVars, syncVars>>
    /\ UNCHANGED startPc

\* One run of the detection loop, `gap` ms after the previous one, with the
\* detector's verdict, and the render and effect its setState leads to.
detectionTick(gap, faceDetected) ==
    /\ isTracking
    /\ ticks < MaxTicks
    /\ ticks' = ticks + 1
    /\ now' = now + gap
    /\ LET start == IF distractionStartRef = NoTime
                    THEN now' ELSE distractionStartRef
           duration == now' - start
           fires == /\ ~faceDetected
                    /\ duration >= DISTRACTION_THRESHOLD_MS
                    /\ ~eventTriggeredRef
           window == TrendWindow(Append(eventTimestampsRef, now'), now')
       IN  /\ distractionStartRef' = IF faceDetected THEN NoTime ELSE start
           /\ eventTriggeredRef' =
                 IF faceDetected
                 THEN eventTriggeredRef /\ distractionStartRef = NoTime
                 ELSE eventTriggeredRef \/ fires
           /\ distractionEvents' =
                 IF fires THEN distractionEvents + 1 ELSE distractionEvents
           /\ totalDistractedTime' =
                 IF faceDetected /\ distractionStartRef # NoTime
                 THEN Sign(totalDistractedTime + (now' - distractionStartRef))
                 ELSE totalDistractedTime
           /\ totalFocusedTime' =
                 IF faceDetected
                 THEN Sign(totalFocusedTime + DETECTION_INTERVAL_MS)
                 ELSE totalFocusedTime
           /\ eventTimestampsRef' =
                 IF fires THEN window ELSE eventTimestampsRef
           /\ shouldSuggestBreak' =
                 IF fires /\ Len(window) >= BREAK_SUGGESTION_THRESHOLD
                 THEN TRUE ELSE shouldSuggestBreak
           /\ allEvents' = IF fires THEN Append(allEvents, now') ELSE allEvents
           /\ span' =
                 IF faceDetected THEN NoSpan
                 ELSE [start |-> IF span = NoSpan THEN now' ELSE span.start,
                       last |-> now',
                       events |-> span.events + (IF fires THEN 1 ELSE 0)]
    /\ distractionEffect(distractionEvents' # distractionEvents
                             \/ shouldSuggestBreak' # shouldSuggestBreak,
                         distractionEvents', shouldSuggestBreak',
                         elementPlaying, mediaEvents)
    /\ UNCHANGED <<isTracking, clearedAt, breakVars>>
    /\ UNCHANGED <<serverVars, playerVars, syncVars>>
    /\ UNCHANGED cameraVars

\* rawScore > 0.85, in hundredths.
CONFIDENCE_PERCENT == 85

\* What detect() hands back to one run of the loop: it throws, or results
\* without detections, with an empty list, or with a first detection of some
\* score (in hundredths).
DetectResults ==
    {[kind |-> k, score |-> 0] : k \in {"throws", "undefined", "empty"}}
        \cup {[kind |-> "detection", score |-> s] :
                 s \in {CONFIDENCE_PERCENT - 5, CONFIDENCE_PERCENT,
                        CONFIDENCE_PERCENT + 5}}

\* rawFace, rawScore and faceDetected of the loop.
FaceRule(result) ==
    LET rawFace == result.kind = "detection"
        rawScore == IF rawFace THEN result.score ELSE 0
    IN  rawFace /\ rawScore > CONFIDENCE_PERCENT

\* One run of the loop on what detect() returned. A detect() that throws is
\* caught and dropped without a setState: the refs, the counters and the
\* render stay as they were, while the learner's span without a detection
\* goes on.
detectionRun(gap, result) ==
    IF result.kind = "throws"
    THEN /\ isTracking
         /\ ticks < MaxTicks
         /\ ticks' = ticks + 1
         /\ now' = now + gap
         /\ span' = [start |-> IF span = NoSpan THEN now' ELSE span.start,
                     last |-> now',
                     events |-> span.events]
         /\ UNCHANGED <<isTracking, distractionEvents, shouldSuggestBreak,
                        distractionStartRef, eventTimestampsRef,
                        eventTriggeredRef,
                        totalFocusedTime, totalDistractedTime, allEvents, clearedAt>>
         /\ UNCHANGED <<elementPlaying, mediaEvents, monitorVars>>
         /\ UNCHANGED <<serverVars, playerVars, syncVars>>
         /\ UNCHANGED cameraVars
    ELSE detectionTick(gap, FaceRule(result))

\* Mutant: "Continue anyway" resets the statistics, as resetStats does.
dismissBreakSuggestion_ResetsStats ==
    /\ shouldSuggestBreak /\ ~isOnBreak
    /\ shouldSuggestBreak' = FALSE
    /\ distractionEvents' = 0
    /\ totalFocusedTime' = 0
    /\ totalDistractedTime' = 0
    /\ eventTimestampsRef' = <<>>
    /\ clearedAt' = Len(allEvents)
    /\ distractionEffect(TRUE, 0, FALSE, elementPlaying, mediaEvents)
    /\ UNCHANGED <<now, ticks, isTracking,
                   distractionStartRef, eventTriggeredRef, span, allEvents>>
    /\ UNCHANGED breakVars
    /\ UNCHANGED <<serverVars, playerVars, syncVars>>
    /\ UNCHANGED cameraVars

\* dismissBreakSuggestion ("Continue anyway" of the break modal).
dismissBreakSuggestion ==
    /\ shouldSuggestBreak /\ ~isOnBreak
    /\ shouldSuggestBreak' = FALSE
    /\ eventTimestampsRef' = <<>>
    /\ clearedAt' = Len(allEvents)
    /\ distractionEffect(TRUE, distractionEvents, FALSE,
                         elementPlaying, mediaEvents)
    /\ UNCHANGED <<now, ticks, isTracking, distractionEvents,
                   distractionStartRef, eventTriggeredRef,
                   totalFocusedTime, totalDistractedTime, span, allEvents>>
    /\ UNCHANGED breakVars
    /\ UNCHANGED <<serverVars, playerVars, syncVars>>
    /\ UNCHANGED cameraVars

\* handleTakeBreak ("Take a break" of the break modal): resetStats, the break
\* begins, onPauseVideo.
handleTakeBreak ==
    /\ shouldSuggestBreak /\ ~isOnBreak
    /\ distractionEvents' = 0
    /\ totalFocusedTime' = 0
    /\ totalDistractedTime' = 0
    /\ shouldSuggestBreak' = FALSE
    /\ eventTimestampsRef' = <<>>
    /\ clearedAt' = Len(allEvents)
    /\ isOnBreak' = TRUE
    /\ breakTimeLeft' = BREAK_DURATION_MS
    /\ UNCHANGED showBreakEndAlert
    /\ LET paused == PausedElement(elementPlaying, mediaEvents)
       IN  distractionEffect(TRUE, 0, FALSE, paused.playing, paused.events)
    /\ UNCHANGED <<now, ticks, isTracking, distractionStartRef,
                   eventTriggeredRef, span, allEvents>>
    /\ UNCHANGED <<serverVars, playerVars, syncVars>>
    /\ UNCHANGED cameraVars

\* handleEndBreak ("Resume Early" of the break overlay): onResumeVideo.
handleEndBreak ==
    /\ isOnBreak
    /\ isOnBreak' = FALSE
    /\ breakTimeLeft' = 0
    /\ UNCHANGED showBreakEndAlert
    /\ LET resumed == PlayingElement(elementPlaying, mediaEvents)
       IN  /\ elementPlaying' = resumed.playing
           /\ mediaEvents' = resumed.events
    /\ UNCHANGED <<lastProcessedEventRef, autoPauses>>
    /\ UNCHANGED trackerVars
    /\ UNCHANGED <<serverVars, playerVars, syncVars>>
    /\ UNCHANGED cameraVars

\* Mutant: the last second of the break is never counted.
breakTimerTick_NeverExpires ==
    /\ isOnBreak
    /\ IF breakTimeLeft <= BREAK_TICK_MS
       THEN UNCHANGED <<isOnBreak, showBreakEndAlert, breakTimeLeft>>
       ELSE /\ breakTimeLeft' = breakTimeLeft - BREAK_TICK_MS
            /\ UNCHANGED <<isOnBreak, showBreakEndAlert>>
    /\ UNCHANGED <<lastProcessedEventRef, autoPauses>>
    /\ UNCHANGED <<elementPlaying, mediaEvents, trackerVars, cameraVars>>
    /\ UNCHANGED <<serverVars, playerVars, syncVars>>

\* One run of the break timer's interval, set up by the effect on isOnBreak
\* and cleared by its cleanup when the break ends: the last second ends the
\* break and shows the prompt, any other is counted down.
breakTimerTick ==
    /\ isOnBreak
    /\ IF breakTimeLeft <= BREAK_TICK_MS
       THEN /\ isOnBreak' = FALSE
            /\ showBreakEndAlert' = TRUE
            /\ breakTimeLeft' = 0
       ELSE /\ breakTimeLeft' = breakTimeLeft - BREAK_TICK_MS
            /\ UNCHANGED <<isOnBreak, showBreakEndAlert>>
    /\ UNCHANGED <<lastProcessedEventRef, autoPauses>>
    /\ UNCHANGED <<elementPlaying, mediaEvents, trackerVars, cameraVars>>
    /\ UNCHANGED <<serverVars, playerVars, syncVars>>

\* handleDismissBreakEnd ("Resume Video" of the prompt): onResumeVideo.
handleDismissBreakEnd ==
    /\ showBreakEndAlert
    /\ showBreakEndAlert' = FALSE
    /\ LET resumed == PlayingElement(elementPlaying, mediaEvents)
       IN  /\ elementPlaying' = resumed.playing
           /\ mediaEvents' = resumed.events
    /\ UNCHANGED <<isOnBreak, breakTimeLeft>>
    /\ UNCHANGED <<lastProcessedEventRef, autoPauses>>
    /\ UNCHANGED <<trackerVars, cameraVars>>
    /\ UNCHANGED <<serverVars, playerVars, syncVars>>

\* The learner presses play on the element (controls, keyboard, media key).
userPlay ==
    /\ ~elementPlaying
    /\ Len(mediaEvents) < MaxMediaEvents
    /\ elementPlaying' = TRUE
    /\ mediaEvents' = Append(mediaEvents, "play")
    /\ UNCHANGED <<trackerVars, monitorVars>>
    /\ UNCHANGED <<serverVars, playerVars, syncVars>>
    /\ UNCHANGED cameraVars

\* The learner presses pause.
userPause ==
    /\ elementPlaying
    /\ Len(mediaEvents) < MaxMediaEvents
    /\ elementPlaying' = FALSE
    /\ mediaEvents' = Append(mediaEvents, "pause")
    /\ UNCHANGED <<trackerVars, monitorVars>>
    /\ UNCHANGED <<serverVars, playerVars, syncVars>>
    /\ UNCHANGED cameraVars

\* The browser dispatches "play": handlePlay, the player renders and hands
\* the monitor a new onPauseVideo, so the monitor's effect runs again.
dispatchPlay ==
    /\ mediaEvents # <<>>
    /\ Head(mediaEvents) = "play"
    /\ handlePlay
    /\ distractionEffect(TRUE, distractionEvents, shouldSuggestBreak,
                         elementPlaying, Tail(mediaEvents))
    /\ UNCHANGED breakVars
    /\ UNCHANGED trackerVars
    /\ UNCHANGED cameraVars
    /\ UNCHANGED syncVars

\* The browser dispatches "pause": handlePause, and the same render.
dispatchPause(delivered) ==
    /\ mediaEvents # <<>>
    /\ Head(mediaEvents) = "pause"
    /\ handlePause(delivered)
    /\ distractionEffect(TRUE, distractionEvents, shouldSuggestBreak,
                         elementPlaying, Tail(mediaEvents))
    /\ UNCHANGED breakVars
    /\ UNCHANGED trackerVars
    /\ UNCHANGED cameraVars
    /\ UNCHANGED syncVars

(***************************************************************************)
(* Initial state                                                           *)
(***************************************************************************)
InitServer ==
    /\ progress = [v \in Videos |-> NoRow]
    /\ lastCall = NoCall
    /\ attempts = {}
    /\ view = <<>>

\* The player on a video never watched, its fetchProgress answered.
InitPlayerIdle ==
    /\ isMandatory = TRUE
    /\ videoTime = 0
    /\ maxWatched = 0
    /\ isPlaying = FALSE
    /\ seekPending = FALSE
    /\ lastSeek = "none"
    /\ net = {}
    /\ pushed = <<>>

\* The monitor mounted, Focus Mode off, the video paused.
InitMonitor ==
    /\ elementPlaying = FALSE
    /\ mediaEvents = <<>>
    /\ now = 0
    /\ ticks = 0
    /\ isTracking = FALSE
    /\ distractionEvents = 0
    /\ shouldSuggestBreak = FALSE
    /\ distractionStartRef = NoTime
    /\ eventTimestampsRef = <<>>
    /\ eventTriggeredRef = FALSE
    /\ totalFocusedTime = 0
    /\ totalDistractedTime = 0
    /\ lastProcessedEventRef = 0
    /\ isOnBreak = FALSE
    /\ breakTimeLeft = 0
    /\ showBreakEndAlert = FALSE
    /\ span = NoSpan
    /\ allEvents = <<>>
    /\ clearedAt = 0
    /\ autoPauses = 0
    /\ mounted = TRUE
    /\ startPc = [c \in StartCalls |-> "idle"]
    /\ streamRef = NoRef
    /\ detectorRef = NoRef
    /\ intervalRef = NoRef
    /\ liveStreams = {}
    /\ liveDetectors = {}
    /\ liveTimers = {}
    /\ stopped = FALSE

\* No quiz modal is open.
InitQuiz ==
    /\ quizShown = 0
    /\ quizResult = "none"
    /\ quizTimer = 0
    /\ quizCompleted = {}

\* The page shows the first video of the course; nothing was sent.
InitSync ==
    /\ activeVideo = 1
    /\ playerMounted = TRUE
    /\ pageProgress = <<>>
    /\ InitQuiz

Init == InitServer /\ InitPlayerIdle /\ InitMonitor /\ InitSync

(***************************************************************************)
(* SpecProgress: every report is for one (user, video) row                 *)
(***************************************************************************)
\* Reported positions: invalid, backward, inside the band, at its edge, beyond.
WatchedInputs ==
    {-1, 0, 7, MAX_ADVANCE, MAX_ADVANCE + 1, 2 * MAX_ADVANCE, 100, 500}

\* Reported durations: invalid, and two real ones.
TotalInputs == {0, 100, 120}

ReportOneVideo ==
    \E w \in WatchedInputs, t \in TotalInputs, enrolled \in BOOLEAN :
        /\ reportProgress(1, w, t, enrolled)
        /\ lastCall' = CallRecord(1, w, t, enrolled)
        /\ UNCHANGED <<playerVars, attnVars, syncVars>>

NextProgress == ReportOneVideo

SpecProgress == Init /\ [][NextProgress]_vars

(***************************************************************************)
(* SpecGate: a course of NumVideos short videos, its quizzes and its reads *)
(***************************************************************************)
GateDuration == 10          \* every video of the course lasts 10 s
GateWatched == {4, 10}      \* a report while playing, and the "ended" report
ScoreInputs == {50, 70}     \* a failing and a passing score (percent)

\* The player only reports on a video the learner could open, and here the
\* learner plays forward (backward seeks are SpecProgress's).
ReportCourseVideo ==
    \E v \in Videos, w \in GateWatched :
        /\ CanAccess(v)
        /\ w > progress[v].watchedSeconds
        /\ reportProgress(v, w, GateDuration, TRUE)
        /\ UNCHANGED lastCall
        /\ UNCHANGED <<playerVars, attnVars, syncVars>>

SubmitQuiz == \E k \in Checkpoints, score \in ScoreInputs : quizSubmit(k, score)

NextGate == ReportCourseVideo \/ SubmitQuiz \/ getCourseProgress

SpecGate == Init /\ [][NextGate]_vars

(***************************************************************************)
(* SpecQuiz: the page's QuizModal in front of the gate: the learner opens  *)
(* the quiz the server asks for, submits, retries, closes, continues       *)
(***************************************************************************)
\* An earlier session completed the videos up to the first checkpoint.
InitQuizPage ==
    /\ progress = [v \in Videos |->
                      IF v <= CHECKPOINT_INTERVAL
                      THEN [exists |-> TRUE, watchedSeconds |-> GateDuration,
                            totalSeconds |-> GateDuration,
                            maxWatchedSeconds |-> GateDuration,
                            completed |-> TRUE]
                      ELSE NoRow]
    /\ lastCall = NoCall
    /\ attempts = {}
    /\ view = <<>>
    /\ InitPlayerIdle
    /\ InitMonitor
    /\ InitSync

\* What the QuizModal and the page's quiz handlers leave alone.
quizFrame ==
    /\ UNCHANGED <<activeVideo, playerMounted>>
    /\ UNCHANGED <<playerVars, attnVars>>

\* "Take Quiz" on the banner the last courseProgress read put up, or a click
\* on a locked video that needs the quiz: the modal mounts.
openQuiz ==
    /\ quizShown = 0
    /\ view # <<>>
    /\ view[1].quizRequired
    /\ quizShown' = view[1].quizCheckpoint
    /\ quizResult' = "none"
    /\ UNCHANGED <<quizTimer, quizCompleted>>
    /\ UNCHANGED serverVars
    /\ UNCHANGED pageProgress
    /\ quizFrame

\* Mutant: every result arms the timer of onComplete.
handleSubmit_AlwaysCompletes(score) ==
    /\ quizShown # 0
    /\ quizResult = "none"
    /\ storeAttempt(quizShown, score)
    /\ quizResult' = IF IsPassed(score) THEN "passed" ELSE "failed"
    /\ quizTimer' = quizShown
    /\ UNCHANGED <<quizShown, quizCompleted>>
    /\ UNCHANGED pageProgress
    /\ quizFrame

\* handleSubmit with every question answered and answers that score `score`:
\* the result is shown, and a passed one arms the timer of onComplete. (A
\* request that fails alerts and changes nothing.)
handleSubmit(score) ==
    /\ quizShown # 0
    /\ quizResult = "none"
    /\ storeAttempt(quizShown, score)
    /\ quizResult' = IF IsPassed(score) THEN "passed" ELSE "failed"
    /\ quizTimer' = IF IsPassed(score) THEN quizShown ELSE quizTimer
    /\ UNCHANGED <<quizShown, quizCompleted>>
    /\ UNCHANGED pageProgress
    /\ quizFrame

\* "Try Again" on a failed result: back to the questions.
tryAgain ==
    /\ quizShown # 0
    /\ quizResult = "failed"
    /\ quizResult' = "none"
    /\ UNCHANGED <<quizShown, quizTimer, quizCompleted>>
    /\ UNCHANGED serverVars
    /\ UNCHANGED pageProgress
    /\ quizFrame

\* onClose ("Review Videos", the X): the page unmounts the modal.
closeQuiz ==
    /\ quizShown # 0
    /\ quizShown' = 0
    /\ quizResult' = "none"
    /\ UNCHANGED <<quizTimer, quizCompleted>>
    /\ UNCHANGED serverVars
    /\ UNCHANGED pageProgress
    /\ quizFrame

\* handleQuizComplete(true): the modal is closed and the course progress is
\* read again.
handleQuizComplete(k) ==
    /\ quizCompleted' = quizCompleted \cup {k}
    /\ quizShown' = 0
    /\ quizResult' = "none"
    /\ view' = <<CourseProgress>>
    /\ pageProgress' = CourseProgress.videos
    /\ UNCHANGED <<progress, lastCall, attempts>>
    /\ quizFrame

\* "Continue Learning" on a passed result.
continueLearning ==
    /\ quizShown # 0
    /\ quizResult = "passed"
    /\ handleQuizComplete(quizShown)
    /\ UNCHANGED quizTimer

\* The timer of handleSubmit fires, whether or not the modal is still there.
completeTimer ==
    /\ quizTimer # 0
    /\ handleQuizComplete(quizTimer)
    /\ quizTimer' = 0

SubmitAnswers == \E score \in ScoreInputs : handleSubmit(score)

NextQuiz ==
    \/ ReportCourseVideo
    \/ getCourseProgress
    \/ openQuiz
    \/ SubmitAnswers
    \/ tryAgain
    \/ closeQuiz
    \/ continueLearning
    \/ completeTimer

SpecQuiz == InitQuizPage /\ [][NextQuiz]_vars

(***************************************************************************)
(* SpecPlayer: the player mounted on video 1, with or without a row stored *)
(* by an earlier session, and the server answering its requests            *)
(***************************************************************************)
\* A row left by an earlier session: position 1, ratchet 3.
StoredRow == [exists |-> TRUE, watchedSeconds |-> 1,
              totalSeconds |-> PlayerDuration, maxWatchedSeconds |-> 3,
              completed |-> FALSE]

\* Mounting: state from useState; the fetchProgress effect has sent its GET.
InitPlayer ==
    /\ progress \in {[v \in Videos |-> NoRow],
                      [v \in Videos |-> IF v = 1 THEN StoredRow ELSE NoRow]}
    /\ lastCall = NoCall
    /\ attempts = {}
    /\ view = <<>>
    /\ isMandatory \in BOOLEAN
    /\ videoTime = 0
    /\ maxWatched = 0
    /\ isPlaying = FALSE
    /\ seekPending = FALSE
    /\ lastSeek = "none"
    /\ net = {FetchResponse(1, progress[1])}
    /\ pushed = <<>>
    /\ InitSync
    /\ InitMonitor

UserSeeks ==
    /\ \E target \in Positions : userSeek(target)
    /\ UNCHANGED syncVars

Seeking ==
    /\ handleSeeking
    /\ UNCHANGED syncVars

TimeUpdate ==
    /\ \E advance \in {0, 1} : handleTimeUpdate(advance)
    /\ UNCHANGED syncVars

\* The learner presses play, or pause; the element's event is dispatched
\* before anything else happens. The monitor is mounted and idle.
Plays ==
    /\ handlePlay
    /\ elementPlaying' = TRUE
    /\ UNCHANGED <<mediaEvents, trackerVars, monitorVars>>
    /\ UNCHANGED cameraVars
    /\ UNCHANGED syncVars

Pauses ==
    \E delivered \in BOOLEAN :
        /\ handlePause(delivered)
        /\ elementPlaying' = FALSE
        /\ UNCHANGED <<mediaEvents, trackerVars, monitorVars>>
        /\ UNCHANGED cameraVars
        /\ UNCHANGED syncVars

SaveTicks ==
    /\ \E delivered \in BOOLEAN : saveTick(delivered)
    /\ UNCHANGED syncVars

Ends ==
    /\ \E delivered \in BOOLEAN : handleEnded(delivered)
    /\ UNCHANGED syncVars

ResponseArrives ==
    /\ \E m \in net : responseArrives(m)
    /\ UNCHANGED syncVars

ResponseFails ==
    /\ \E m \in net : responseFails(m)
    /\ UNCHANGED syncVars

NextPlayer ==
    \/ UserSeeks
    \/ Seeking
    \/ TimeUpdate
    \/ Plays
    \/ Pauses
    \/ SaveTicks
    \/ Ends
    \/ ResponseArrives
    \/ ResponseFails

SpecPlayer == InitPlayer /\ [][NextPlayer]_vars

(***************************************************************************)
(* SpecSync: the sync protocol of the player: what each handler sends,     *)
(* the page switching the video under the mounted player, and the player   *)
(* unmounting                                                              *)
(***************************************************************************)
\* video.duration of an element whose metadata is not loaded (NaN, sent as
\* total_seconds: null).
NoDuration == 0

\* What no handler of the player writes.
syncFrame ==
    /\ UNCHANGED <<activeVideo, playerMounted, pageProgress, quizVars>>
    /\ UNCHANGED <<mediaEvents, trackerVars, monitorVars, cameraVars>>

SyncSeeking ==
    /\ playerMounted
    /\ handleSeeking
    /\ UNCHANGED syncVars

SyncTimeUpdate ==
    /\ playerMounted
    /\ \E advance \in {0, 1} : handleTimeUpdate(advance)
    /\ UNCHANGED syncVars

SyncPlays ==
    /\ playerMounted
    /\ handlePlay
    /\ elementPlaying' = TRUE
    /\ syncFrame

\* "pause" before the end: the effect clears the interval and saves.
SyncPauses ==
    /\ playerMounted
    /\ \E delivered \in BOOLEAN : handlePause(delivered)
    /\ elementPlaying' = FALSE
    /\ syncFrame

SyncTicks ==
    /\ playerMounted
    /\ \E delivered \in BOOLEAN : saveTick(delivered)
    /\ UNCHANGED syncVars

SyncEnds ==
    /\ playerMounted
    /\ \E delivered \in BOOLEAN : handleEnded(delivered)
    /\ UNCHANGED syncVars

SyncResponseArrives ==
    /\ playerMounted
    /\ \E m \in net : responseArrives(m)
    /\ UNCHANGED syncVars

SyncResponseFails ==
    /\ \E m \in net : responseFails(m)
    /\ UNCHANGED syncVars

\* handleVideoSelect of an accessible video: the player stays mounted and
\* gets a new videoId and src. The element loads the new source from 0; the
\* fetch effect asks for the video's progress; saveProgress is a new
\* function, so the interval effect runs again: it restarts the interval if
\* isPlaying, and saves otherwise, with the duration of the new source if
\* its metadata is `loaded` by then.
switchVideo(v, loaded, delivered) ==
    LET total == IF loaded THEN DurationOf(v) ELSE NoDuration
        fetch == FetchResponse(v, progress[v])
    IN  /\ playerMounted
        /\ ~seekPending
        /\ v # activeVideo
        /\ Cardinality(Fetches) < MaxInflight
        /\ activeVideo' = v
        /\ videoTime' = 0
        /\ lastSeek' = "none"
        /\ IF isPlaying
           THEN /\ net' = net \cup {fetch}
                /\ pushed' = <<>>
                /\ UNCHANGED serverVars
           ELSE /\ Cardinality(Saves) < MaxInflight
                /\ pushed' = <<Push("effect", v, 0, total, delivered)>>
                /\ IF delivered /\ ReportStatus(0, total, TRUE) = "ok"
                   THEN /\ reportProgress(v, 0, total, TRUE)
                        /\ net' = net \cup {fetch, SaveResponse(v, progress'[v])}
                        /\ UNCHANGED lastCall
                   ELSE /\ net' = net \cup {fetch}
                        /\ UNCHANGED serverVars
        /\ UNCHANGED <<isMandatory, maxWatched, isPlaying, seekPending>>
        /\ UNCHANGED <<playerMounted, pageProgress, quizVars>>
        /\ UNCHANGED attnVars

\* handleVideoSelect of an accessible video.
selectVideo(v, loaded, delivered) ==
    /\ CanAccess(v)
    /\ switchVideo(v, loaded, delivered)

\* What the page knows of video `v`: progress.find(p => p.video_id === v).
NoVideoProgress == [canAccess |-> FALSE, quizRequiredAt |-> 0]

VideoProgress(v) ==
    IF \E i \in DOMAIN pageProgress : pageProgress[i].videoId = v
    THEN LET i == CHOOSE i \in DOMAIN pageProgress :
                      pageProgress[i].videoId = v
         IN  [canAccess |-> pageProgress[i].canAccess,
              quizRequiredAt |-> pageProgress[i].quizRequiredAt]
    ELSE NoVideoProgress

\* Mutant: the click selects the video whatever the page knows of it.
handleVideoSelect_AnyVideo(v, loaded, delivered) ==
    /\ playerMounted
    /\ quizShown = 0
    /\ switchVideo(v, loaded, delivered)

\* handleVideoSelect, a click on video `v` of the list (the open QuizModal
\* covers the list): an accessible video becomes the active one (the same
\* video again changes nothing), a locked one that carries quiz_required
\* opens the QuizModal for it, any other click does nothing.
handleVideoSelect(v, loaded, delivered) ==
    /\ playerMounted
    /\ quizShown = 0
    /\ IF VideoProgress(v).canAccess
       THEN switchVideo(v, loaded, delivered)
       ELSE /\ VideoProgress(v).quizRequiredAt # 0
            /\ quizShown' = VideoProgress(v).quizRequiredAt
            /\ quizResult' = "none"
            /\ UNCHANGED <<quizTimer, quizCompleted>>
            /\ UNCHANGED <<activeVideo, playerMounted, pageProgress>>
            /\ UNCHANGED <<serverVars, playerVars, attnVars>>

\* fetchProgress of the page: the answer is kept in progress.
fetchProgress ==
    /\ playerMounted
    /\ view' = <<CourseProgress>>
    /\ pageProgress' = CourseProgress.videos
    /\ UNCHANGED <<progress, lastCall, attempts>>
    /\ UNCHANGED <<activeVideo, playerMounted, quizVars>>
    /\ UNCHANGED <<playerVars, attnVars>>

SelectVideo ==
    \E v \in 1..SyncVideos, loaded \in BOOLEAN, delivered \in BOOLEAN :
        selectVideo(v, loaded, delivered)

\* The player unmounts (the page is left): the cleanup of the interval
\* effect clears the interval.
unmountPlayer ==
    /\ playerMounted
    /\ playerMounted' = FALSE
    /\ pushed' = <<>>
    /\ UNCHANGED <<isMandatory, videoTime, maxWatched, isPlaying,
                   seekPending, lastSeek, net>>
    /\ UNCHANGED <<activeVideo, pageProgress, quizVars>>
    /\ UNCHANGED <<serverVars, attnVars>>

NextSync ==
    \/ SyncSeeking
    \/ SyncTimeUpdate
    \/ SyncPlays
    \/ SyncPauses
    \/ SyncTicks
    \/ SyncEnds
    \/ SyncResponseArrives
    \/ SyncResponseFails
    \/ unmountPlayer

SpecSync == InitPlayer /\ [][NextSync]_vars

(***************************************************************************)
(* SpecSwitch: the learner going from video to video under the mounted     *)
(* player and pressing play and pause, before the playback advances, and   *)
(* leaving the page                                                        *)
(***************************************************************************)
\* The row of a video watched to its end by an earlier session.
CompletedRow == [exists |-> TRUE, watchedSeconds |-> PlayerDuration,
                 totalSeconds |-> PlayerDuration,
                 maxWatchedSeconds |-> PlayerDuration, completed |-> TRUE]

\* The page opens on the first accessible video that is not completed:
\* video 1, or video 2 when an earlier session completed video 1.
InitSwitch ==
    /\ \/ /\ progress = [v \in Videos |-> NoRow]
          /\ activeVideo = 1
       \/ /\ progress = [v \in Videos |-> IF v = 1 THEN CompletedRow ELSE NoRow]
          /\ activeVideo = 2
    /\ lastCall = NoCall
    /\ attempts = {}
    /\ view = <<>>
    /\ isMandatory = TRUE
    /\ videoTime = 0
    /\ maxWatched = 0
    /\ isPlaying = FALSE
    /\ seekPending = FALSE
    /\ lastSeek = "none"
    /\ net = {FetchResponse(activeVideo, progress[activeVideo])}
    /\ pushed = <<>>
    /\ playerMounted = TRUE
    /\ pageProgress = <<>>
    /\ InitQuiz
    /\ InitMonitor

NextSwitch ==
    \/ SelectVideo
    \/ SyncSeeking
    \/ SyncPlays
    \/ SyncPauses
    \/ SyncResponseArrives
    \/ SyncResponseFails
    \/ unmountPlayer

SpecSwitch == InitSwitch /\ [][NextSwitch]_vars

(***************************************************************************)
(* SpecAttention: Focus Mode beside a paused video: the sampling loop       *)
(* under its timings, and the learner answering the break modal (a break   *)
(* that was begun lasts; SpecMonitor ends it)                              *)
(***************************************************************************)
\* A run of the loop delayed by almost the whole trend window.
LongGap == TREND_WINDOW_MS - 3 * DISTRACTION_THRESHOLD_MS

\* Date.now() between two runs of the loop: the interval, a run delayed to
\* the distraction threshold, and a long delay (the timers of a hidden tab
\* or a sleeping machine).
TickGaps == {DETECTION_INTERVAL_MS, DISTRACTION_THRESHOLD_MS, LongGap}

Ticks ==
    \E gap \in TickGaps, faceDetected \in BOOLEAN :
        /\ gap = LongGap => now < MaxLongGaps * LongGap
        /\ detectionTick(gap, faceDetected)

NextAttention ==
    \/ startTracking
    \/ stopTracking
    \/ Ticks
    \/ dismissBreakSuggestion
    \/ handleTakeBreak

SpecAttention == Init /\ [][NextAttention]_vars

(***************************************************************************)
(* SpecMonitor: Focus Mode with the learner at the video's controls; every *)
(* run of the loop comes DISTRACTION_THRESHOLD_MS after the one before     *)
(***************************************************************************)
MonitorTicks ==
    \E faceDetected \in BOOLEAN :
        detectionTick(DISTRACTION_THRESHOLD_MS, faceDetected)

DispatchPause == \E delivered \in BOOLEAN : dispatchPause(delivered)

NextMonitor ==
    \/ startTracking
    \/ stopTracking
    \/ MonitorTicks
    \/ dismissBreakSuggestion
    \/ handleTakeBreak
    \/ handleEndBreak
    \/ userPlay
    \/ userPause
    \/ dispatchPlay
    \/ DispatchPause
    \/ ResponseArrives
    \/ ResponseFails

SpecMonitor == Init /\ [][NextMonitor]_vars

(***************************************************************************)
(* SpecEnded: the long video played from its start to its end, MAX_ADVANCE *)
(* seconds of playback at a time, with interval pushes that reach the      *)
(* server, fail or are skipped                                             *)
(***************************************************************************)
\* The page shows the long video, never watched; its fetch was answered.
InitEnded ==
    /\ InitServer
    /\ InitPlayerIdle
    /\ InitMonitor
    /\ activeVideo = LongVideo
    /\ playerMounted = TRUE
    /\ pageProgress = <<>>
    /\ InitQuiz

PlaysOn ==
    /\ playerMounted
    /\ handleTimeUpdate(MAX_ADVANCE)
    /\ UNCHANGED syncVars

NextEnded ==
    \/ SyncPlays
    \/ PlaysOn
    \/ SyncPauses
    \/ SyncTicks
    \/ SyncEnds
    \/ SyncResponseArrives
    \/ SyncResponseFails

SpecEnded == InitEnded /\ [][NextEnded]_vars

\* Playback goes on while the video plays, the interval timer fires, and
\* every request is answered or fails; the learner's presses are not forced.
SpecEndedFair ==
    /\ SpecEnded
    /\ WF_vars(PlaysOn)
    /\ WF_vars(SyncTicks)
    /\ WF_vars(SyncResponseArrives \/ SyncResponseFails)

(***************************************************************************)
(* SpecPage: the course page with its list of videos: the learner clicks   *)
(* on videos, accessible or locked, takes the quiz a click opens, and the  *)
(* page reads the course progress again                                    *)
(***************************************************************************)
\* The rows of an earlier session that completed the first `n` videos.
CompletedUpTo(n) ==
    [v \in Videos |->
        IF v <= n
        THEN [exists |-> TRUE, watchedSeconds |-> DurationOf(v),
              totalSeconds |-> DurationOf(v),
              maxWatchedSeconds |-> DurationOf(v), completed |-> TRUE]
        ELSE NoRow]

\* fetchData: the first accessible video that is not completed, else the
\* first accessible one, else the first video.
FirstVideo(videos) ==
    LET open == {i \in DOMAIN videos :
                     videos[i].canAccess /\ ~videos[i].completed}
        accessible == {i \in DOMAIN videos : videos[i].canAccess}
        first(S) == CHOOSE i \in S : \A j \in S : i <= j
    IN  IF open # {} THEN first(open)
        ELSE IF accessible # {} THEN first(accessible)
        ELSE 1

\* The page loaded by fetchData, the first checkpoint due or one video
\* short of it.
InitPage ==
    /\ progress \in {CompletedUpTo(CHECKPOINT_INTERVAL),
                      CompletedUpTo(CHECKPOINT_INTERVAL - 1)}
    /\ lastCall = NoCall
    /\ attempts = {}
    /\ view = <<CourseProgress>>
    /\ InitPlayerIdle
    /\ InitMonitor
    /\ pageProgress = CourseProgress.videos
    /\ activeVideo = FirstVideo(pageProgress)
    /\ playerMounted = TRUE
    /\ InitQuiz

\* A click on any video of the list. The effects of the player run right
\* after the render, before the metadata of the new source is loaded.
SelectFromList ==
    \E v \in Videos, delivered \in BOOLEAN :
        handleVideoSelect(v, FALSE, delivered)

NextPage ==
    \/ SelectFromList
    \/ fetchProgress
    \/ SubmitAnswers
    \/ tryAgain
    \/ closeQuiz
    \/ continueLearning
    \/ completeTimer
    \/ SyncResponseArrives
    \/ SyncResponseFails

SpecPage == InitPage /\ [][NextPage]_vars

(***************************************************************************)
(* SpecBreak: the break suggestion answered: the break, its timer, the     *)
(* prompt it ends with, the learner at the video's controls meanwhile; the *)
(* sampling loop, which writes none of the break's state, stands still     *)
(***************************************************************************)
\* Focus Mode on a paused video never watched, at the run of the loop that
\* counted the third event of three spans of DISTRACTION_THRESHOLD_MS each and
\* raised the break suggestion: a state SpecMonitor reaches in eight runs.
InitBreak ==
    /\ InitServer
    /\ InitPlayerIdle
    /\ InitSync
    /\ elementPlaying = FALSE
    /\ mediaEvents = <<>>
    /\ now = 8 * DISTRACTION_THRESHOLD_MS
    /\ ticks = 8
    /\ isTracking = TRUE
    /\ distractionEvents = BREAK_SUGGESTION_THRESHOLD
    /\ shouldSuggestBreak = TRUE
    /\ distractionStartRef = 7 * DISTRACTION_THRESHOLD_MS
    /\ eventTimestampsRef = <<2 * DISTRACTION_THRESHOLD_MS,
                             5 * DISTRACTION_THRESHOLD_MS,
                             8 * DISTRACTION_THRESHOLD_MS>>
    /\ eventTriggeredRef = TRUE
    /\ totalFocusedTime = 1
    /\ totalDistractedTime = 1
    /\ span = [start |-> 7 * DISTRACTION_THRESHOLD_MS,
               last |-> 8 * DISTRACTION_THRESHOLD_MS, events |-> 1]
    /\ allEvents = eventTimestampsRef
    /\ clearedAt = 0
    /\ lastProcessedEventRef = BREAK_SUGGESTION_THRESHOLD
    /\ isOnBreak = FALSE
    /\ breakTimeLeft = 0
    /\ showBreakEndAlert = FALSE
    /\ autoPauses = 2
    /\ mounted = TRUE
    /\ startPc = [c \in StartCalls |-> "idle"]
    /\ streamRef = 1
    /\ detectorRef = 1
    /\ intervalRef = 1
    /\ liveStreams = {1}
    /\ liveDetectors = {1}
    /\ liveTimers = {1}
    /\ stopped = FALSE

NextBreak ==
    \/ dismissBreakSuggestion
    \/ handleTakeBreak
    \/ breakTimerTick
    \/ handleEndBreak
    \/ handleDismissBreakEnd
    \/ userPlay
    \/ userPause
    \/ dispatchPlay
    \/ DispatchPause
    \/ ResponseArrives
    \/ ResponseFails

SpecBreak == InitBreak /\ [][NextBreak]_vars

\* While the break lasts its interval is set and keeps firing.
SpecBreakFair == SpecBreak /\ WF_vars(breakTimerTick)

(***************************************************************************)
(* SpecDetector: the sampling loop on everything detect() can hand back,   *)
(* a throw included, beside a paused video                                 *)
(***************************************************************************)
DetectorRuns ==
    \E gap \in {DETECTION_INTERVAL_MS, DISTRACTION_THRESHOLD_MS},
       result \in DetectResults :
        detectionRun(gap, result)

NextDetector ==
    \/ startTracking
    \/ stopTracking
    \/ DetectorRuns

SpecDetector == Init /\ [][NextDetector]_vars

(***************************************************************************)
(* SpecCamera: startTracking await by await, against stopTracking and the  *)
(* unmount of the monitor                                                  *)
(***************************************************************************)
RequestCamera == \E c \in StartCalls : requestCamera(c)

CameraGranted == \E c \in StartCalls : cameraGranted(c)

CameraDenied == \E c \in StartCalls : cameraDenied(c)

MetadataLoaded == \E c \in StartCalls : metadataLoaded(c)

DetectorReady == \E c \in StartCalls : detectorReady(c)

DetectorFailed == \E c \in StartCalls : detectorFailed(c)

NextCamera ==
    \/ RequestCamera
    \/ CameraGranted
    \/ CameraDenied
    \/ MetadataLoaded
    \/ DetectorReady
    \/ DetectorFailed
    \/ stopTracking
    \/ unmount

SpecCamera == Init /\ [][NextCamera]_vars

ValidWatched == {w \in WatchedInputs : w >= 0}

C2_Commutative ==
    LET m == LastMax(progress[1])
    IN  \A w1, w2 \in ValidWatched :
            RatchetAfter(RatchetAfter(m, w1), w2)
                = RatchetAfter(RatchetAfter(m, w2), w1)

(***************************************************************************)
(* C2 (amended): two reports neither of which is beyond lastMax +          *)
(* MAX_ADVANCE of the stored ratchet commute: either order ends at         *)
(* max(lastMax, w1, w2).                                                   *)
(***************************************************************************)
C2_CommutativeWithinBand ==
    LET m == LastMax(progress[1])
    IN  \A w1, w2 \in ValidWatched :
            (w1 <= m + MAX_ADVANCE /\ w2 <= m + MAX_ADVANCE) =>
                /\ RatchetAfter(RatchetAfter(m, w1), w2)
                       = RatchetAfter(RatchetAfter(m, w2), w1)
                /\ RatchetAfter(RatchetAfter(m, w1), w2) = Max(m, Max(w1, w2))

\* A stored ratchet from which two different reports ahead of it are both
\* inside the band, reached by an accepted report.
C2_Witness ==
    /\ lastCall.status = "ok"
    /\ progress[1].maxWatchedSeconds > 0
    /\ \E w1, w2 \in ValidWatched :
           /\ progress[1].maxWatchedSeconds < w1
           /\ w1 < w2
           /\ w2 <= progress[1].maxWatchedSeconds + MAX_ADVANCE

(***************************************************************************)
(* C3: after every reportProgress completed is true exactly when           *)
(* maxWatchedSeconds >= 0.9 * totalSeconds, and once true it stays true    *)
(* after any later report, also one with a smaller watchedSeconds.         *)
(***************************************************************************)
C3_CompletedDerivedAndSticky ==
    LET r == progress[1]
    IN  /\ r.exists =>
              (r.completed <=> 10 * r.maxWatchedSeconds >= 9 * r.totalSeconds)
        /\ ~r.exists => ~r.completed
        /\ lastCall.wasCompleted => r.completed

\* A backward seek to 0 reported on a completed video.
C3_Witness ==
    /\ lastCall.status = "ok"
    /\ lastCall.wasCompleted
    /\ lastCall.watchedSeconds = 0
    /\ progress[1].watchedSeconds = 0
    /\ progress[1].completed

(***************************************************************************)
(* C4: in every courseProgress read, the videos 1..CHECKPOINT_INTERVAL are *)
(* accessible whatever the quiz history, and a video is accessible iff a   *)
(* passed QuizAttempt exists for every checkpoint (3, 6, ...) before it.   *)
(***************************************************************************)
C4_CheckpointGating ==
    view # <<>> =>
        \A i \in Videos :
            LET acc == view[1].videos[i].canAccess
            IN  /\ i <= CHECKPOINT_INTERVAL => acc
                /\ acc <=>
                      \A k \in 1..(i - 1) :
                          k % CHECKPOINT_INTERVAL = 0 =>
                              \E a \in attempts :
                                  /\ a.triggerVideoIndex = k
                                  /\ a.score >= PASS_PERCENT

\* A 7-video course read after a failed and a passed attempt for checkpoint 3
\* and a failed one for checkpoint 6: video 4 is open, video 7 is not.
C4_Witness ==
    /\ view # <<>>
    /\ [triggerVideoIndex |-> 3, score |-> 50, passed |-> FALSE] \in attempts
    /\ [triggerVideoIndex |-> 3, score |-> 70, passed |-> TRUE] \in attempts
    /\ [triggerVideoIndex |-> 6, score |-> 50, passed |-> FALSE] \in attempts
    /\ view[1].videos[4].canAccess
    /\ ~view[1].videos[7].canAccess

(***************************************************************************)
(* C5: a courseProgress read reports a quiz as required for checkpoint k   *)
(* only when no passed attempt exists for k and every video up to and      *)
(* including video k is completed (started is not enough), and k is the    *)
(* smallest checkpoint without a passed attempt.                           *)
(***************************************************************************)
C5_QuizRequiredOnlyWhenFinished ==
    view # <<>> =>
        LET k == view[1].quizCheckpoint
        IN  /\ view[1].quizRequired <=> k # 0
            /\ k # 0 =>
                  /\ k \in Checkpoints
                  /\ ~\E a \in attempts : a.triggerVideoIndex = k /\ a.passed
                  /\ \A i \in 1..k :
                        /\ progress[i].exists
                        /\ 10 * progress[i].maxWatchedSeconds
                               >= 9 * progress[i].totalSeconds
                  /\ \A j \in Checkpoints :
                        j < k => \E a \in attempts :
                                    a.triggerVideoIndex = j /\ a.passed

\* Checkpoint 3 is passed, videos 1..6 are completed, an attempt for
\* checkpoint 6 has failed, and the read asks for the quiz of checkpoint 6.
C5_Witness ==
    /\ view # <<>>
    /\ view[1].quizRequired
    /\ view[1].quizCheckpoint = 6
    /\ [triggerVideoIndex |-> 6, score |-> 50, passed |-> FALSE] \in attempts
    /\ \A i \in 1..6 : progress[i].completed

(***************************************************************************)
(* C6: on a mandatory video every run of handleSeeking sets a position     *)
(* beyond maxWatched + SEEK_BUFFER back to maxWatched and leaves every     *)
(* other position as requested; a backward seek is never changed.          *)
(***************************************************************************)
C6_SeekGuard ==
    [][(handleSeeking /\ isMandatory) =>
          /\ videoTime > maxWatched + SEEK_BUFFER => videoTime' = maxWatched
          /\ videoTime <= maxWatched + SEEK_BUFFER => videoTime' = videoTime
          /\ videoTime <= maxWatched => videoTime' = videoTime
          /\ maxWatched' = maxWatched]_vars

\* A seek far ahead of a non-zero maxWatched was just set back to it.
C6_Witness ==
    /\ isMandatory
    /\ lastSeek = "clamped"
    /\ maxWatched > 0
    /\ videoTime = maxWatched
    /\ maxWatched + SEEK_BUFFER < PlayerDuration

(***************************************************************************)
(* C7: every maximal run of consecutive "no face" ticks whose duration     *)
(* reaches DISTRACTION_THRESHOLD_MS has emitted exactly one distraction    *)
(* event, however long it lasts, and a shorter one has emitted none.       *)
(***************************************************************************)
C7_OneEventPerSpan ==
    span # NoSpan =>
        span.events =
            IF span.last - span.start >= DISTRACTION_THRESHOLD_MS THEN 1 ELSE 0

(***************************************************************************)
(* C8 (as stated): an emitted event that brings the number of emitted      *)
(* events inside TREND_WINDOW_MS to BREAK_SUGGESTION_THRESHOLD makes       *)
(* shouldSuggestBreak true, and one that leaves fewer inside does not.     *)
(***************************************************************************)
InWindow(events, from, t) ==
    Cardinality({i \in (from + 1)..Len(events) :
                     t - events[i] < TREND_WINDOW_MS})

Emits == Len(allEvents') = Len(allEvents) + 1

C9_FirstTwoEventsPauseOnce ==
    [][/\ (Emits /\ Len(allEvents') <= 2)
             => (autoPauses' = autoPauses + 1 /\ ~elementPlaying')
       /\ ~Emits => autoPauses' = autoPauses]_vars

\* Both events paused the video, the learner resumed after the second, and
\* the render of that resumption paused nothing.
C9_Witness ==
    /\ Len(allEvents) = 2
    /\ autoPauses = 2
    /\ elementPlaying
    /\ isPlaying
    /\ mediaEvents = <<>>

(***************************************************************************)
(* C10: while shouldSuggestBreak is true the video plays only between a    *)
(* resumption and the dispatch of its "play" event, and that dispatch      *)
(* pauses it again.                                                        *)
(***************************************************************************)
C10_BreakSuggestionForcesPause ==
    /\ [](shouldSuggestBreak /\ elementPlaying =>
             mediaEvents # <<>> /\ mediaEvents[Len(mediaEvents)] = "play")
    /\ [][(shouldSuggestBreak /\ mediaEvents # <<>>
              /\ mediaEvents' # mediaEvents /\ isPlaying' # isPlaying)
             => ~elementPlaying']_vars

\* The video was resumed while the suggestion is pending.
C10_Witness ==
    /\ shouldSuggestBreak
    /\ ~isOnBreak
    /\ elementPlaying
    /\ mediaEvents = <<"play">>

(***************************************************************************)
(* C11  stopTracking is idempotent: a second call in a row changes nothing *)
(*      and throws nothing, and after a call the sampling timer, the       *)
(*      detector and the stream are all released.                          *)
(***************************************************************************)
C11_StopIdempotentAndReleases ==
    [][(stopTracking \/ unmount) =>
          /\ AfterStop(Camera') = Camera'
          /\ liveTimers' = {}
          /\ liveDetectors' = {}
          /\ liveStreams' = {}]_vars

(***************************************************************************)
(* C12  The capture device has at most one consumer: at no time are two    *)
(*      media streams or two sampling timers held.                         *)
(***************************************************************************)
C12_AtMostOneConsumer ==
    /\ Cardinality(liveStreams) <= 1
    /\ Cardinality(liveTimers) <= 1

(***************************************************************************)
(* C13  After stopTracking or unmount, once every pending step of a        *)
(*      startTracking that was in flight has run, no media stream and no   *)
(*      sampling timer is held.                                            *)
(***************************************************************************)
\* No startTracking call has a step left: it returned, or it waits for the
\* metadata of a video element whose stream was stopped.
Quiescent ==
    \A c \in StartCalls :
        \/ startPc[c] = "idle"
        \/ startPc[c] = "metadata" /\ c \notin liveStreams

C13_StopReleasesHardware ==
    (stopped /\ Quiescent) => (liveStreams = {} /\ liveTimers = {})

(***************************************************************************)
(* C14  Sync responses are out-of-order tolerant: a late response never    *)
(*      lowers the local maxWatched, which is non-decreasing under every   *)
(*      interleaving of time-advance signals and sync responses.           *)
(***************************************************************************)
C14_LocalMaxNeverLowered ==
    [][(\/ \E advance \in {0, 1} : handleTimeUpdate(advance)
        \/ \E m \in net : m.kind = "save" /\ responseArrives(m))
       => maxWatched' >= maxWatched]_vars

(***************************************************************************)
(* C15  Sync cadence: a time-advance signal sends no report; the interval  *)
(*      sends its reports only while the video is playing; every           *)
(*      transition to paused sends the position once; and at the end of    *)
(*      the video a report with watchedSeconds = totalSeconds is sent.     *)
(***************************************************************************)
\* The reports of the last handler that `by` sent.
PushedBy(by) == {i \in 1..Len(pushed) : pushed[i].by = by}

C16_FinalFlushOnLeave ==
    [][(unmountPlayer \/ SelectVideo) =>
          \E i \in 1..Len(pushed') :
              /\ pushed'[i].video = activeVideo
              /\ pushed'[i].watched = videoTime]_vars

(***************************************************************************)
(* C17  A failed quiz attempt unlocks nothing: the submission whose result *)
(*      is not passed changes no video's canAccess and signals no          *)
(*      completion; the learner can try again and submit again; and        *)
(*      completion is signalled only for a checkpoint with a passed        *)
(*      attempt.                                                           *)
(***************************************************************************)
C17_FailedAttemptUnlocksNothing ==
    /\ [](/\ \A k \in quizCompleted : PassedCheckpoint(k)
          /\ quizTimer # 0 => PassedCheckpoint(quizTimer)
          /\ (quizShown # 0 /\ quizResult = "failed") => ENABLED tryAgain
          /\ (quizShown # 0 /\ quizResult = "none") => ENABLED SubmitAnswers)
    /\ [][(\E score \in ScoreInputs : ~IsPassed(score) /\ handleSubmit(score))
          => /\ \A i \in Videos : CanAccess(i)' = CanAccess(i)
             /\ quizCompleted' = quizCompleted
             /\ quizTimer' = quizTimer
             /\ quizShown' = quizShown]_vars

\* The quiz of the first checkpoint was failed: its result is shown, the
\* attempt is stored, the next video is still locked and nothing was
\* signalled.
C17_Witness ==
    /\ quizShown = CHECKPOINT_INTERVAL
    /\ quizResult = "failed"
    /\ \E a \in attempts : a.triggerVideoIndex = quizShown /\ ~a.passed
    /\ ~CanAccess(CHECKPOINT_INTERVAL + 1)
    /\ quizCompleted = {}

(***************************************************************************)
(* C18  Once the progress fetch for the video shown has completed, the     *)
(*      local maxWatched equals the server's stored maxWatchedSeconds of   *)
(*      that video, also when nothing or 0 is stored and the player came   *)
(*      from a video with a larger maxWatched.                             *)
(***************************************************************************)
C18_MirrorsServerAfterFetch ==
    [][\A m \in net :
          (m.kind = "fetch" /\ m.video = activeVideo /\ responseArrives(m))
              => maxWatched' = LastMax(progress[activeVideo])]_vars

(***************************************************************************)
(* C19  A progress push that fails, the request or its response lost,      *)
(*      leaves maxWatched, currentTime and the playing state as they       *)
(*      were; the interval goes on and its next tick pushes again.         *)
(***************************************************************************)
\* The interval's report of the last step failed.
TickFailed == \E i \in PushedBy("interval") : ~pushed[i].sent

C19_FailedPushKeepsLocalState ==
    /\ [](TickFailed => (isPlaying /\ ENABLED SyncTicks))
    /\ [][(\/ TickFailed'
           \/ \E m \in net : m.kind = "save" /\ responseFails(m))
          => /\ maxWatched' = maxWatched
             /\ videoTime' = videoTime
             /\ isPlaying' = isPlaying]_vars

\* An interval report failed in the middle of the video, the ratchet ahead
\* of what the server has.
C19_Witness ==
    /\ TickFailed
    /\ isPlaying
    /\ videoTime > 0
    /\ maxWatched > LastMax(progress[1])

(***************************************************************************)
(* C20  A startTracking that fails, the camera denied or the detector not  *)
(*      initialised, leaves tracking disabled, holds no capture stream and *)
(*      no sampling timer, and does not touch the playback.                *)
(***************************************************************************)
C20_FailedStartHoldsNothing ==
    [][\A c \in StartCalls :
          (cameraDenied(c) \/ detectorFailed(c)) =>
              /\ isTracking' = isTracking
              /\ c \notin liveStreams'
              /\ c \notin liveTimers'
              /\ elementPlaying' = elementPlaying
              /\ mediaEvents' = mediaEvents]_vars

(***************************************************************************)
(* C21  A run of the loop on which the detector yields nothing (no result, *)
(*      or detect() fails) is treated as a "no face" run: it starts the    *)
(*      distraction timer if none is running, and emits the distraction    *)
(*      event when the timer reaches the threshold and none was emitted.   *)
(***************************************************************************)
C21_NothingCountsAsNoFace ==
    [][\A gap \in {DETECTION_INTERVAL_MS, DISTRACTION_THRESHOLD_MS},
          result \in DetectResults :
          (result.kind # "detection" /\ detectionRun(gap, result)) =>
              LET start == IF distractionStartRef = NoTime
                           THEN now' ELSE distractionStartRef
              IN  /\ distractionStartRef' = start
                  /\ (now' - start >= DISTRACTION_THRESHOLD_MS
                          /\ ~eventTriggeredRef)
                         => distractionEvents' = distractionEvents + 1]_vars

C23_BreakAlwaysEnds ==
    /\ [][handleTakeBreak =>
             /\ isOnBreak'
             /\ breakTimeLeft' = BREAK_DURATION_MS
             /\ ~elementPlaying']_vars
    /\ [][breakTimerTick =>
             /\ elementPlaying' = elementPlaying
             /\ IF breakTimeLeft > BREAK_TICK_MS
                THEN /\ isOnBreak'
                     /\ breakTimeLeft' = breakTimeLeft - BREAK_TICK_MS
                     /\ showBreakEndAlert' = showBreakEndAlert
                ELSE ~isOnBreak' /\ showBreakEndAlert']_vars
    /\ [][handleEndBreak => (~isOnBreak' /\ elementPlaying')]_vars
    /\ [][handleDismissBreakEnd =>
             (~showBreakEndAlert' /\ elementPlaying')]_vars
    /\ [][(~elementPlaying /\ elementPlaying') =>
             (handleDismissBreakEnd \/ handleEndBreak \/ userPlay)]_vars
    /\ [](isOnBreak => breakTimeLeft \in 1..BREAK_DURATION_MS)
    /\ (isOnBreak ~> ~isOnBreak)

\* The timer ran out on a break taken: the prompt is up, the video is still
\* paused, the counters are reset.
C23_Witness ==
    /\ showBreakEndAlert
    /\ ~isOnBreak
    /\ breakTimeLeft = 0
    /\ ~elementPlaying
    /\ distractionEvents = 0

(***************************************************************************)
(* C24  On a mandatory video seeking alone gains nothing: a seek, its      *)
(*      "seeking" event and the time-advance signal that follows it, with  *)
(*      the video not playing, leave maxWatched as it was, and leave the   *)
(*      playhead, once the seek is handled, at most SEEK_BUFFER past it.   *)
(***************************************************************************)
C24_SeekingAloneGainsNothing ==
    [][(/\ isMandatory
        /\ ~isPlaying
        /\ \/ \E target \in Positions : userSeek(target)
           \/ handleSeeking
           \/ handleTimeUpdate(0))
       => /\ maxWatched' = maxWatched
          /\ ~seekPending' => videoTime' <= maxWatched + SEEK_BUFFER]_vars

(***************************************************************************)
(* C25  A progress response is applied only to the video it was issued     *)
(*      for: the response to a fetch or a push for a video that is no      *)
(*      longer the active one changes neither the local maxWatched nor     *)
(*      the currentTime of the video now active.                           *)
(***************************************************************************)
C25_ResponseOnlyForItsVideo ==
    [][\A m \in net :
          (m.video # activeVideo /\ responseArrives(m))
              => /\ maxWatched' = maxWatched
                 /\ videoTime' = videoTime]_vars

(***************************************************************************)
(* C26  The debounce guard does not outlive a tracking session: after      *)
(*      stopTracking during a span that has emitted its event and a new    *)
(*      startTracking, the run of the loop that takes the first span       *)
(*      without a detection of the new session, for which nothing was      *)
(*      emitted yet, to DISTRACTION_THRESHOLD_MS emits an event.           *)
(***************************************************************************)
C26_GuardEndsWithSession ==
    [][(/\ isTracking
        /\ ticks' = ticks + 1
        /\ span' # NoSpan
        /\ span.events = 0
        /\ span'.last - span'.start >= DISTRACTION_THRESHOLD_MS)
       => /\ span'.events = 1
          /\ distractionEvents' = distractionEvents + 1]_vars

(***************************************************************************)
(* C27  After "take a break" has reset the event counters the cycle starts *)
(*      over: the first and the second distraction event emitted after the *)
(*      break is over each pause the video automatically, as the first two *)
(*      events of a fresh session do.                                      *)
(***************************************************************************)
C27_CycleRestartsAfterBreak ==
    [][(/\ Emits
        /\ ~isOnBreak
        /\ Len(allEvents) > distractionEvents
        /\ distractionEvents' < AUTO_PAUSE_BELOW)
       => (autoPauses' = autoPauses + 1 /\ ~elementPlaying')]_vars

(***************************************************************************)
(* C28  While a break is active no distraction is counted: from "take a    *)
(*      break" until the break ends distractionEvents is 0 and             *)
(*      shouldSuggestBreak is false.                                       *)
(***************************************************************************)
C28_NothingCountedOnBreak ==
    isOnBreak => (distractionEvents = 0 /\ ~shouldSuggestBreak)

(***************************************************************************)
(* C29  On the course page a locked video never becomes the active video   *)
(*      by selection: a click changes the active video only to a video     *)
(*      the last fetched progress marks can_access, and otherwise leaves   *)
(*      it as it is, opening the quiz modal only for a target that         *)
(*      carries quiz_required.                                             *)
(***************************************************************************)
C29_LockedNeverSelected ==
    /\ [](CanAccess(activeVideo))
    /\ [][\A v \in Videos, loaded \in BOOLEAN, delivered \in BOOLEAN :
             handleVideoSelect(v, loaded, delivered) =>
                 /\ activeVideo' # activeVideo =>
                        (activeVideo' = v /\ VideoProgress(v).canAccess)
                 /\ ~VideoProgress(v).canAccess =>
                        /\ activeVideo' = activeVideo
                        /\ VideoProgress(v).quizRequiredAt # 0
                        /\ quizShown' = VideoProgress(v).quizRequiredAt]_vars

\* The click on the locked fourth video opened the quiz of the first
\* checkpoint, and the active video is one that was selected from the list.
C29_Witness ==
    /\ quizShown = CHECKPOINT_INTERVAL
    /\ ~VideoProgress(CHECKPOINT_INTERVAL + 1).canAccess
    /\ activeVideo = 2
    /\ attempts = {}

(***************************************************************************)
(* C30  Completion is not missed: when the video was played to its end and *)
(*      the "ended" report with watchedSeconds = totalSeconds is accepted  *)
(*      by the server, the stored record eventually has completed = true,  *)
(*      also when earlier interval pushes failed or were skipped and the   *)
(*      server's ratchet lags the playhead by more than MAX_ADVANCE.       *)
(***************************************************************************)
EndedAccepted == \E i \in PushedBy("ended") : pushed[i].sent

C30_CompletionNotMissed ==
    EndedAccepted ~> progress[activeVideo].completed

====
